---------------------------- MODULE Spec2Model ----------------------------
(***************************************************************************)
(* Prompt rendering and response evaluation of the Vertex AI notebooks.    *)
(*                                                                         *)
(* The notebooks build a prompt with a Python f-string, send it to the     *)
(* text model, score the answer with fuzzywuzzy's fuzz.partial_ratio and    *)
(* average the scores with pandas' Series.mean.                            *)
(*                                                                         *)
(* Strings are sequences of one-character strings.                         *)
(***************************************************************************)
EXTENDS Integers, Sequences, FiniteSets, TLC

VARIABLES
    pc,           \* which notebook cell has run
    pieces,       \* the literal pieces and names the author put in the template
    template,     \* the f-string literal, as written in the cell
    bindings,     \* the names in scope when the f-string is evaluated
    prompt,       \* what evaluating the f-string produced
    expected,     \* df["answer_groundtruth"] of the row being scored
    predicted,    \* df["answer_prediction"] of the row being scored
    match_score,  \* df["match_score"] of that row
    column,       \* qa_data_df["match_score"], NaN where a cell holds no score
    mean_score,   \* the value of qa_data_df["match_score"].mean()
    runs,         \* the evaluation runs: the DataFrame and cell position of each
    loop,         \* the code completion loop: prefix, i and the calls it made
    report,       \* the classification report cell: the two columns and the report
    matcher       \* the matching blocks the installed SequenceMatcher reports

vars == <<pc, pieces, template, bindings, prompt, expected, predicted, match_score,
          column, mean_score, runs, loop, report, matcher>>

(***************************************************************************)
(* Bounds of the model.                                                    *)
(***************************************************************************)
MaxSegs == 3

MaxLen == 3

MaxBatch == 4

MaxCaseLen == 2

(***************************************************************************)
(* Generic helpers.                                                        *)
(***************************************************************************)
\* Python's None where a string is expected: no string of characters.
None == <<"None">>

\* The float NaN of a cell that holds no score; scores are never negative.
NaN == 0 - 1

SeqsUpTo(S, n) == UNION {[1..k -> S] : k \in 0..n}

Min(x, y) == IF x <= y THEN x ELSE y

RECURSIVE Concat(_)
Concat(ss) == IF ss = <<>> THEN <<>> ELSE Head(ss) \o Concat(Tail(ss))

HasBrace(s) == \E i \in 1..Len(s) : s[i] \in {"{", "}"}

(***************************************************************************)
(* Prompt construction: a Python f-string.                                 *)
(*                                                                         *)
(* A template is the text between the quotes of an f-string literal:       *)
(* "{{" and "}}" stand for one brace of literal text, "{name}" is replaced *)
(* by the value of name.  Python compiles the literal into an ordered list *)
(* of constant pieces and names (a lone brace is a SyntaxError), then      *)
(* evaluates the names from left to right; a name that is not in scope     *)
(* raises NameError, which carries the name.                               *)
(***************************************************************************)
LitChars == {"a", "{", "}"}

Names == {<<"q">>, <<"c">>}

Values == {<<>>, <<"b">>, <<"{", "q", "}">>}

Lit(c) == [kind |-> "lit", val |-> <<c>>]

Ph(n) == [kind |-> "ph", val |-> n]

Segments == {Lit(c) : c \in LitChars} \cup {Ph(n) : n \in Names}

Bindings == UNION {[D -> Values] : D \in SUBSET Names}

\* The source text of one literal piece: braces are doubled.
RECURSIVE Escape(_)
Escape(s) ==
    IF s = <<>> THEN <<>>
    ELSE (IF Head(s) \in {"{", "}"} THEN <<Head(s), Head(s)>> ELSE <<Head(s)>>)
         \o Escape(Tail(s))

\* The f-string literal a cell spells for a list of pieces.
RECURSIVE FString(_)
FString(segs) ==
    IF segs = <<>> THEN <<>>
    ELSE (IF Head(segs).kind = "ph"
          THEN <<"{">> \o Head(segs).val \o <<"}">>
          ELSE Escape(Head(segs).val))
         \o FString(Tail(segs))

\* Index of the first "}" of src at or after i, 0 when there is none.
RECURSIVE CloseAt(_, _)
CloseAt(src, i) ==
    IF i > Len(src) THEN 0
    ELSE IF src[i] = "}" THEN i
    ELSE CloseAt(src, i + 1)

SyntaxErrorMark == <<[kind |-> "SyntaxError", val |-> <<>>]>>

\* Compilation of the literal from position i on: its pieces, or the
\* SyntaxError mark.
RECURSIVE Parse(_, _)
Parse(src, i) ==
    IF i > Len(src) THEN <<>>
    ELSE IF src[i] = "{" THEN
        IF i < Len(src) /\ src[i + 1] = "{"
        THEN LET rest == Parse(src, i + 2)
             IN IF rest = SyntaxErrorMark THEN rest ELSE <<Lit("{")>> \o rest
        ELSE LET j == CloseAt(src, i + 1)
             IN IF j = 0 \/ j = i + 1 \/ HasBrace(SubSeq(src, i + 1, j - 1))
                THEN SyntaxErrorMark
                ELSE LET rest == Parse(src, j + 1)
                     IN IF rest = SyntaxErrorMark THEN rest
                        ELSE <<Ph(SubSeq(src, i + 1, j - 1))>> \o rest
    ELSE IF src[i] = "}" THEN
        IF i < Len(src) /\ src[i + 1] = "}"
        THEN LET rest == Parse(src, i + 2)
             IN IF rest = SyntaxErrorMark THEN rest ELSE <<Lit("}")>> \o rest
        ELSE SyntaxErrorMark
    ELSE LET rest == Parse(src, i + 1)
         IN IF rest = SyntaxErrorMark THEN rest ELSE <<Lit(src[i])>> \o rest

Result(status, text, name) == [status |-> status, text |-> text, name |-> name]

NoResult == Result("none", <<>>, <<>>)

\* Format with a value put in front of the text built so far.
RECURSIVE FormatPrepend(_, _, _)
FormatPrepend(segs, B, acc) ==
    IF segs = <<>> THEN Result("ok", acc, <<>>)
    ELSE IF Head(segs).kind = "lit"
    THEN FormatPrepend(Tail(segs), B, acc \o Head(segs).val)
    ELSE IF Head(segs).val \in DOMAIN B
    THEN FormatPrepend(Tail(segs), B, B[Head(segs).val] \o acc)
    ELSE Result("NameError", <<>>, Head(segs).val)

\* Format that leaves out a name that is not in scope.
RECURSIVE FormatSkipMissing(_, _, _)
FormatSkipMissing(segs, B, acc) ==
    IF segs = <<>> THEN Result("ok", acc, <<>>)
    ELSE IF Head(segs).kind = "lit"
    THEN FormatSkipMissing(Tail(segs), B, acc \o Head(segs).val)
    ELSE IF Head(segs).val \in DOMAIN B
    THEN FormatSkipMissing(Tail(segs), B, acc \o B[Head(segs).val])
    ELSE FormatSkipMissing(Tail(segs), B, acc)

\* Format that keeps the braces around a substituted value.
RECURSIVE FormatKeepBraces(_, _, _)
FormatKeepBraces(segs, B, acc) ==
    IF segs = <<>> THEN Result("ok", acc, <<>>)
    ELSE IF Head(segs).kind = "lit"
    THEN FormatKeepBraces(Tail(segs), B, acc \o Head(segs).val)
    ELSE IF Head(segs).val \in DOMAIN B
    THEN FormatKeepBraces(Tail(segs), B,
                          acc \o <<"{">> \o B[Head(segs).val] \o <<"}">>)
    ELSE Result("NameError", <<>>, Head(segs).val)

\* Format that substitutes again inside a value that is itself a placeholder
\* of a name in scope.
RECURSIVE FormatResubstitute(_, _, _)
FormatResubstitute(segs, B, acc) ==
    IF segs = <<>> THEN Result("ok", acc, <<>>)
    ELSE IF Head(segs).kind = "lit"
    THEN FormatResubstitute(Tail(segs), B, acc \o Head(segs).val)
    ELSE IF Head(segs).val \in DOMAIN B
    THEN LET v == B[Head(segs).val]
             again == /\ Len(v) = 3
                      /\ v[1] = "{"
                      /\ v[3] = "}"
                      /\ <<v[2]>> \in DOMAIN B
         IN FormatResubstitute(Tail(segs), B,
                               acc \o (IF again THEN B[<<v[2]>>] ELSE v))
    ELSE Result("NameError", <<>>, Head(segs).val)

\* Evaluation of the compiled pieces, left to right, acc being the text
\* built so far.
RECURSIVE Format(_, _, _)
Format(segs, B, acc) ==
    IF segs = <<>> THEN Result("ok", acc, <<>>)
    ELSE IF Head(segs).kind = "lit"
    THEN Format(Tail(segs), B, acc \o Head(segs).val)
    ELSE IF Head(segs).val \in DOMAIN B
    THEN Format(Tail(segs), B, acc \o B[Head(segs).val])
    ELSE Result("NameError", <<>>, Head(segs).val)

\* render that rejects a scope holding a name the template does not use.
RenderStrict(T, B) ==
    LET segs == Parse(T, 1)
        used == IF segs = SyntaxErrorMark THEN {}
                ELSE {segs[i].val :
                         i \in {k \in 1..Len(segs) : segs[k].kind = "ph"}}
    IN IF segs = SyntaxErrorMark THEN Result("SyntaxError", <<>>, <<>>)
       ELSE IF DOMAIN B \ used # {}
       THEN Result("TypeError", <<>>, CHOOSE n \in DOMAIN B \ used : TRUE)
       ELSE Format(segs, B, <<>>)

\* render(template, bindings): the f-string expression of a cell.
Render(T, B) ==
    LET segs == Parse(T, 1)
    IN IF segs = SyntaxErrorMark THEN Result("SyntaxError", <<>>, <<>>)
       ELSE Format(segs, B, <<>>)

\* The names a template refers to.
Placeholders(T) ==
    LET segs == Parse(T, 1)
    IN IF segs = SyntaxErrorMark THEN {}
       ELSE {segs[i].val : i \in {k \in 1..Len(segs) : segs[k].kind = "ph"}}

RenderIdle ==
    /\ pieces = <<>>
    /\ template = <<>>
    /\ bindings = <<>>
    /\ prompt = NoResult

ScoreIdle ==
    /\ expected = <<>>
    /\ predicted = <<>>
    /\ match_score = NaN

MeanIdle ==
    /\ column = <<>>
    /\ mean_score = <<>>

RunIdle == runs = <<>>

LoopIdle == loop = <<>>

ReportIdle == report = <<>>

MatcherIdle == matcher = <<>>

InitRender ==
    /\ pc = "start"
    /\ pieces \in SeqsUpTo(Segments, MaxSegs)
    /\ template = FString(pieces)
    /\ bindings \in Bindings
    /\ prompt = NoResult
    /\ ScoreIdle
    /\ MeanIdle
    /\ RunIdle
    /\ LoopIdle
    /\ ReportIdle
    /\ MatcherIdle

\* The cell evaluates prompt = f"""...""".
BuildPrompt ==
    /\ pc = "start"
    /\ prompt' = Render(template, bindings)
    /\ pc' = "rendered"
    /\ UNCHANGED <<pieces, template, bindings, expected, predicted, match_score,
                   column, mean_score, runs, loop, report, matcher>>

NextRender == BuildPrompt

SpecRender == InitRender /\ [][NextRender]_vars

(***************************************************************************)
(* Scoring: fuzzywuzzy's fuzz.partial_ratio.  The notebook has the reader  *)
(* install python-Levenshtein before fuzzywuzzy, so fuzzywuzzy's            *)
(* SequenceMatcher is its StringMatcher: the matching blocks come from      *)
(* Levenshtein.opcodes and the ratio is Levenshtein.ratio.  The blocks of   *)
(* two strings depend on which shortest list of edit operations the        *)
(* installed version reports; the variable matcher holds that choice, the  *)
(* same for every call of one behaviour.                                   *)
(*                                                                         *)
(* Positions are counted from 0 and ranges are half open, as in Python; a  *)
(* block <<i, j, k>> says a[i:i+k] = b[j:j+k].  A ratio is kept as the     *)
(* exact fraction <<numerator, denominator>>.                              *)
(***************************************************************************)
Alphabet == {"a", "b", "c"}

Strs == SeqsUpTo(Alphabet, MaxLen)

\* The least of three numbers.
Min3(x, y, z) == Min(x, Min(y, z))

\* One row of the cost table of the edit distance: the cost of turning the
\* characters of a up to and including ch into each prefix of b, from the
\* row before.  acc holds the cells computed so far.  Replacing a character
\* costs 1 + xcost.
RECURSIVE EditRow(_, _, _, _, _)
EditRow(prev, ch, b, xcost, acc) ==
    LET j == Len(acc)
    IN IF j > Len(b) THEN acc
       ELSE EditRow(prev, ch, b, xcost,
                    Append(acc,
                           Min3(prev[j + 1] + 1,
                                acc[j] + 1,
                                prev[j] + (IF ch = b[j] THEN 0 ELSE 1 + xcost))))

RECURSIVE EditRows(_, _, _, _)
EditRows(a, b, xcost, rows) ==
    IF Len(rows) > Len(a) THEN rows
    ELSE LET prev == rows[Len(rows)]
         IN EditRows(a, b, xcost,
                     Append(rows,
                            EditRow(prev, a[Len(rows)], b, xcost,
                                    <<prev[1] + 1>>)))

\* The cost table of a and b: cell [i + 1][j + 1] is the edit distance of
\* a[:i] and b[:j].
EditTable(a, b, xcost) ==
    EditRows(a, b, xcost, <<[j \in 1..(Len(b) + 1) |-> j - 1]>>)

\* Levenshtein.distance with xcost = 0; with xcost = 1 the distance in
\* which a replacement counts as a deletion and an insertion.
EditDistance(a, b, xcost) == EditTable(a, b, xcost)[Len(a) + 1][Len(b) + 1]

\* Levenshtein.editops(a[:i], b[:j]): for every list of Levenshtein.distance
\* many edit operations that turns one into the other, the set of pairs
\* <<x, y>> of positions (from 0) where a[x] is kept as b[y].  D is the cost
\* table.  Which of the lists the library reports depends on its version.
RECURSIVE KeptPairs(_, _, _, _, _)
KeptPairs(a, b, D, i, j) ==
    IF i = 0 /\ j = 0 THEN {{}}
    ELSE LET here == D[i + 1][j + 1]
             delete == IF i > 0 /\ here = D[i][j + 1] + 1
                       THEN KeptPairs(a, b, D, i - 1, j) ELSE {}
             insert == IF j > 0 /\ here = D[i + 1][j] + 1
                       THEN KeptPairs(a, b, D, i, j - 1) ELSE {}
             keep == IF i > 0 /\ j > 0 /\ a[i] = b[j]
                     THEN {k \cup {<<i - 1, j - 1>>} :
                              k \in KeptPairs(a, b, D, i - 1, j - 1)}
                     ELSE {}
             replace == IF i > 0 /\ j > 0 /\ a[i] # b[j] /\ here = D[i][j] + 1
                        THEN KeptPairs(a, b, D, i - 1, j - 1) ELSE {}
         IN delete \cup insert \cup keep \cup replace

\* The number of kept pairs in a row from p on.
RECURSIVE RunSize(_, _)
RunSize(kept, p) ==
    IF p \in kept THEN 1 + RunSize(kept, <<p[1] + 1, p[2] + 1>>) ELSE 0

\* Levenshtein.matching_blocks: the runs of kept pairs as <<i, j, size>>
\* and the closing <<len(a), len(b), 0>>.
BlocksOf(kept, a, b) ==
    {<<p[1], p[2], RunSize(kept, p)>> :
        p \in {q \in kept : <<q[1] - 1, q[2] - 1>> \notin kept}}
    \cup {<<Len(a), Len(b), 0>>}

\* The number of characters, after the first n, that a and b have in
\* common at their start.
RECURSIVE PrefixLen(_, _, _)
PrefixLen(a, b, n) ==
    IF n < Len(a) /\ n < Len(b) /\ a[n + 1] = b[n + 1]
    THEN PrefixLen(a, b, n + 1)
    ELSE n

\* The number of characters, before the last n, that a and b have in
\* common at their end, the first p characters of each left out.
RECURSIVE SuffixLen(_, _, _, _)
SuffixLen(a, b, p, n) ==
    IF p + n < Len(a) /\ p + n < Len(b) /\ a[Len(a) - n] = b[Len(b) - n]
    THEN SuffixLen(a, b, p, n + 1)
    ELSE n

\* The block lists StringMatcher.get_matching_blocks can report for a and
\* b.  The library sets the common prefix and then the common suffix of the
\* two strings aside, as kept, and looks for a shortest list of edit
\* operations between what is left: one block list for every such list.
MatchingBlocks(a, b) ==
    LET p == PrefixLen(a, b, 0)
        s == SuffixLen(a, b, p, 0)
        a1 == SubSeq(a, p + 1, Len(a) - s)
        b1 == SubSeq(b, p + 1, Len(b) - s)
        D == EditTable(a1, b1, 0)
        affix == {<<x, x>> : x \in 0..(p - 1)}
                   \cup {<<Len(a) - x, Len(b) - x>> : x \in 1..s}
    IN {BlocksOf({<<q[1] + p, q[2] + p>> : q \in k} \cup affix, a, b) :
           k \in KeptPairs(a1, b1, D, Len(a1), Len(b1))}

\* partial_ratio runs its body when no decorator has answered: neither
\* string is None, the two differ and neither is empty.
BodyRuns(s1, s2) ==
    /\ s1 # None
    /\ s2 # None
    /\ s1 # s2
    /\ Len(s1) > 0
    /\ Len(s2) > 0

\* The strings partial_ratio hands to SequenceMatcher for s1 and s2: the
\* shorter one first, s1 first when the lengths are equal.
MatcherKey(s1, s2) == IF Len(s1) <= Len(s2) THEN <<s1, s2>> ELSE <<s2, s1>>

MatcherKeys(pairs) ==
    {MatcherKey(p[1], p[2]) : p \in {q \in pairs : BodyRuns(q[1], q[2])}}

\* The installed library seen as a function: for every pair of strings in
\* K one of the block lists it can report.
RECURSIVE Matchers(_)
Matchers(K) ==
    IF K = {} THEN {<<>>}
    ELSE LET k == CHOOSE k \in K : TRUE
         IN {[x \in K |-> IF x = k THEN m ELSE f[x]] :
                m \in MatchingBlocks(k[1], k[2]), f \in Matchers(K \ {k})}

\* StringMatcher.get_matching_blocks of SequenceMatcher(None, a, b).
GetMatchingBlocks(a, b) == matcher[<<a, b>>]

\* Ratio without the factor 2.
RatioNoDouble(a, b) ==
    LET lensum == Len(a) + Len(b)
    IN IF lensum > 0 THEN <<(lensum - EditDistance(a, b, 1)) \div 2, lensum>>
       ELSE <<1, 1>>

\* StringMatcher.ratio, Levenshtein.ratio: (lensum - ldist) / lensum for
\* the distance in which a replacement costs 2, which is 2.0 * M / T for
\* the M characters the two strings have in common in order; 1.0 for two
\* empty strings.
Ratio(a, b) ==
    LET lensum == Len(a) + Len(b)
    IN IF lensum > 0 THEN <<lensum - EditDistance(a, b, 1), lensum>>
       ELSE <<1, 1>>

Less(r1, r2) == r1[1] * r2[2] < r2[1] * r1[2]

MaxRatio(rs) == CHOOSE r \in rs : \A q \in rs : ~Less(r, q)

\* utils.intr(100 * r) for r = 2.0 * matches / length: int(round(.)) gives
\* the nearest integer and the even one on a tie.  The product is a double:
\* for r = 23/40 it is 57.49999999999999 and not the tie 57.5 (the only
\* such case while length < 400).
Intr100(r) ==
    LET n == 100 * r[1]
        q == n \div r[2]
        rem == n % r[2]
    IN IF 2 * rem < r[2] THEN q
       ELSE IF 2 * rem > r[2] THEN q + 1
       ELSE IF 40 * r[1] = 23 * r[2] THEN q
       ELSE IF q % 2 = 0 THEN q ELSE q + 1

\* LongSubstr that always cuts at the start of the longer string.
LongSubstrFromStart(shorter, longer, block) ==
    SubSeq(longer, 1, Min(Len(shorter), Len(longer)))

\* LongSubstr that takes the whole longer string.
LongSubstrWhole(shorter, longer, block) == longer

\* longer[long_start:long_end] for one block of partial_ratio.
LongSubstr(shorter, longer, block) ==
    LET long_start == IF block[2] - block[1] > 0 THEN block[2] - block[1] ELSE 0
        long_end == long_start + Len(shorter)
    IN SubSeq(longer, long_start + 1, Min(long_end, Len(longer)))

RECURSIVE SumScores(_, _, _)
SumScores(shorter, longer, blocks) ==
    IF blocks = {} THEN 0
    ELSE LET x == CHOOSE x \in blocks : TRUE
         IN Intr100(Ratio(shorter, LongSubstr(shorter, longer, x)))
            + SumScores(shorter, longer, blocks \ {x})

\* PartialRatioBody that adds the blocks' scores up instead of taking the
\* best one.
PartialRatioBodySum(s1, s2) ==
    LET shorter == IF Len(s1) <= Len(s2) THEN s1 ELSE s2
        longer == IF Len(s1) <= Len(s2) THEN s2 ELSE s1
    IN SumScores(shorter, longer, GetMatchingBlocks(shorter, longer))

\* The body of fuzz.partial_ratio, under its decorators.
PartialRatioBody(s1, s2) ==
    LET shorter == IF Len(s1) <= Len(s2) THEN s1 ELSE s2
        longer == IF Len(s1) <= Len(s2) THEN s2 ELSE s1
        blocks == GetMatchingBlocks(shorter, longer)
        scores == {Ratio(shorter, LongSubstr(shorter, longer, x)) : x \in blocks}
    IN IF \E r \in scores : Less(<<995, 1000>>, r) THEN 100
       ELSE Intr100(MaxRatio(scores))

\* PartialRatio with check_empty_string ahead of check_for_equivalence.
PartialRatioEmptyFirst(s1, s2) ==
    IF s1 = None \/ s2 = None THEN 0
    ELSE IF Len(s1) = 0 \/ Len(s2) = 0 THEN 0
    ELSE IF s1 = s2 THEN 100
    ELSE PartialRatioBody(s1, s2)

\* fuzz.partial_ratio: check_for_none, then check_for_equivalence, then
\* check_empty_string, then the body.
PartialRatio(s1, s2) ==
    IF s1 = None \/ s2 = None THEN 0
    ELSE IF s1 = s2 THEN 100
    ELSE IF Len(s1) = 0 \/ Len(s2) = 0 THEN 0
    ELSE PartialRatioBody(s1, s2)

\* fuzz.ratio, the plain ratio of the notebook's explanation.
FuzzRatio(s1, s2) ==
    IF s1 = None \/ s2 = None THEN 0
    ELSE IF s1 = s2 THEN 100
    ELSE IF Len(s1) = 0 \/ Len(s2) = 0 THEN 0
    ELSE Intr100(Ratio(s1, s2))

\* The upper-case letters and, at the same positions, their lower-case
\* forms.
UpperLetters ==
    <<"A", "B", "C", "D", "E", "F", "G", "H", "I", "J", "K", "L", "M",
      "N", "O", "P", "Q", "R", "S", "T", "U", "V", "W", "X", "Y", "Z">>

LowerLetters ==
    <<"a", "b", "c", "d", "e", "f", "g", "h", "i", "j", "k", "l", "m",
      "n", "o", "p", "q", "r", "s", "t", "u", "v", "w", "x", "y", "z">>

\* str.lower() on one character: an upper-case letter becomes its
\* lower-case form, any other character is kept.
LowerChar(c) ==
    IF \E k \in 1..Len(UpperLetters) : UpperLetters[k] = c
    THEN LowerLetters[CHOOSE k \in 1..Len(UpperLetters) : UpperLetters[k] = c]
    ELSE c

Lower(s) == [i \in 1..Len(s) |-> LowerChar(s[i])]

\* str.strip(): the string without its leading and trailing blanks.
RECURSIVE Strip(_)
Strip(s) ==
    IF s = <<>> THEN s
    ELSE IF Head(s) = " " THEN Strip(Tail(s))
    ELSE IF s[Len(s)] = " " THEN Strip(SubSeq(s, 1, Len(s) - 1))
    ELSE s

\* get_fuzzy_match that takes two strings for equal when they are equal
\* once lowered and stripped.
get_fuzzy_match_processed(row) ==
    IF row.answer_groundtruth = None \/ row.answer_prediction = None THEN 0
    ELSE IF Strip(Lower(row.answer_groundtruth))
               = Strip(Lower(row.answer_prediction))
    THEN 100
    ELSE PartialRatio(row.answer_groundtruth, row.answer_prediction)

\* get_fuzzy_match(df): the score of one row.
get_fuzzy_match(row) == PartialRatio(row.answer_groundtruth, row.answer_prediction)

\* The strings of the notebook.
WorldWideWeb ==
    <<"W", "o", "r", "l", "d", " ", "W", "i", "d", "e", " ", "W", "e", "b">>

PacificOcean ==
    <<"P", "a", "c", "i", "f", "i", "c", " ", "O", "c", "e", "a", "n">>

ThePacificOcean == <<"T", "h", "e", " ">> \o PacificOcean

ThisIsATest ==
    <<"t", "h", "i", "s", " ", "i", "s", " ", "a", " ", "t", "e", "s", "t">>

ThisIsATestBang == ThisIsATest \o <<"!">>

\* Strings that differ in the case of a letter or in the blanks around it.
CaseChars == {"a", "A", " "}

CaseStrs == SeqsUpTo(CaseChars, MaxCaseLen)

NotebookPairs ==
    {<<WorldWideWeb, WorldWideWeb>>,
     <<ThePacificOcean, PacificOcean>>,
     <<ThisIsATest, ThisIsATestBang>>}

InitScore ==
    /\ pc = "start"
    /\ \E pair \in (Strs \X Strs) \cup (CaseStrs \X CaseStrs) \cup NotebookPairs :
          /\ expected = pair[1]
          /\ predicted = pair[2]
    /\ match_score = NaN
    /\ matcher \in Matchers(MatcherKeys({<<expected, predicted>>,
                                          <<predicted, expected>>}))
    /\ RenderIdle
    /\ MeanIdle
    /\ RunIdle
    /\ LoopIdle
    /\ ReportIdle

\* The cell computes the match_score of the row.
ScoreRow ==
    /\ pc = "start"
    /\ match_score' = get_fuzzy_match([answer_groundtruth |-> expected,
                                       answer_prediction |-> predicted])
    /\ pc' = "scored"
    /\ UNCHANGED <<pieces, template, bindings, prompt, expected, predicted,
                   column, mean_score, runs, loop, report, matcher>>

NextScore == ScoreRow

SpecScore == InitScore /\ [][NextScore]_vars

(***************************************************************************)
(* Aggregation: qa_data_df["match_score"].mean().                          *)
(*                                                                         *)
(* pandas skips the NaN cells: it adds up the cells that hold a score and  *)
(* divides by their number.  The mean is kept as the fraction              *)
(* <<sum, count>>; with no score at all the division is 0.0 / 0, the float *)
(* NaN, and nothing is raised.                                             *)
(***************************************************************************)
ScoreVals == {0, 67, 100}

Columns == SeqsUpTo(ScoreVals \cup {NaN}, MaxBatch)

RECURSIVE NanSum(_)
NanSum(col) ==
    IF col = <<>> THEN 0
    ELSE (IF Head(col) = NaN THEN 0 ELSE Head(col)) + NanSum(Tail(col))

RECURSIVE NanCount(_)
NanCount(col) ==
    IF col = <<>> THEN 0
    ELSE (IF Head(col) = NaN THEN 0 ELSE 1) + NanCount(Tail(col))

\* Mean that divides by the number of rows.
MeanOverRows(col) == [raised |-> "none", value |-> <<NanSum(col), Len(col)>>]

\* Series.mean(): what it raises (nothing) and the value it returns.
Mean(col) == [raised |-> "none", value |-> <<NanSum(col), NanCount(col)>>]

InitMean ==
    /\ pc = "start"
    /\ column \in Columns
    /\ mean_score = <<>>
    /\ RenderIdle
    /\ ScoreIdle
    /\ RunIdle
    /\ LoopIdle
    /\ ReportIdle
    /\ MatcherIdle

\* The cell prints the average match score.
PrintMean ==
    /\ pc = "start"
    /\ mean_score' = Mean(column)
    /\ pc' = "averaged"
    /\ UNCHANGED <<pieces, template, bindings, prompt, expected, predicted,
                   match_score, column, runs, loop, report, matcher>>

NextMean == PrintMean

SpecMean == InitMean /\ [][NextMean]_vars

(***************************************************************************)
(* The evaluation run: the cells that fill answer_prediction and           *)
(* match_score and print the mean.                                         *)
(*                                                                         *)
(* qa_data_df["question"].apply(get_answer) calls get_answer on the rows   *)
(* in index order and gathers what it returns; the column is assigned when *)
(* the last row has returned.  get_answer evaluates its f-string with the  *)
(* row bound to its parameter, then calls generation_model.predict once    *)
(* and returns the text of the response; what predict raises leaves        *)
(* get_answer, apply and the cell, and nothing is assigned.  The next cell *)
(* applies get_fuzzy_match to every row in the same way, the last one      *)
(* prints the mean.  A run is one such pass over one DataFrame; the        *)
(* template, the names in scope and generation_model are the globals of    *)
(* the notebook, common to every run.  A DataFrame has at least one row.   *)
(***************************************************************************)
MaxRows == 2

Invocations == {1, 2}

\* The parameter of get_answer, the name the row is bound to.
RowName == <<"q">>

\* What generation_model.predict may raise.
Errors == {"ServiceUnavailable", "ResourceExhausted"}

Questions == {<<"a">>, <<"b">>}

Truths == {None, <<"a">>, <<"a", "b">>}

Replies == {<<"a">>, <<"b", "a">>, <<"4">>}

RunTemplates == {<<Lit("a"), Ph(RowName)>>, <<Ph(RowName), Ph(<<"c">>)>>}

Globals == {<<>>, (<<"c">> :> <<"b">>)}

QuestionTemplate ==
    <<Lit("Q"), Lit(":"), Lit(" "), Ph(RowName), Lit("\n"), Lit("A"), Lit(":")>>

TwoPlusTwo == <<"W", "h", "a", "t", " ", "i", "s", " ", "2", "+", "2", "?">>

Four == <<"4">>

\* The columns a DataFrame can be built from: as many answers as questions.
Batches ==
    UNION {[1..k -> Questions] \X [1..k -> Truths] : k \in 1..MaxRows}

\* The pairs of strings the scoring cell of a run can hand to
\* SequenceMatcher.
RunKeys == MatcherKeys((Truths \cup {Four}) \X Replies)

NoError == [kind |-> "none", name |-> <<>>]

\* A run before its first cell: the DataFrame built from qa_data.
NewRun(qs, gs) ==
    [given |-> [question |-> qs, answer_groundtruth |-> gs],
     question |-> qs,
     answer_groundtruth |-> gs,
     has_prediction |-> FALSE,
     answer_prediction |-> <<>>,
     has_score |-> FALSE,
     match_score |-> <<>>,
     mean_score |-> <<>>,
     pc |-> "render",
     row |-> 1,
     prompt |-> NoResult,
     answers |-> <<>>,
     scores |-> <<>>,
     calls |-> <<>>,
     error |-> NoError,
     trace |-> <<>>]

\* The names get_answer sees: its parameter first, then the globals.
Scope(q) == (RowName :> q) @@ bindings

\* One call of generation_model.predict, as the run records it.
Call(row, text) ==
    [row |-> row, prompt |-> text, outcome |-> "pending", text |-> <<>>,
     error |-> "none"]

Event(kind, row) == <<kind, row>>

\* Everything but the runs.
others == <<pc, pieces, template, bindings, prompt, expected, predicted,
            match_score, column, mean_score, loop, report, matcher>>

\* RenderRow that leaves out a row whose f-string fails.
RenderRowSkip(p) ==
    /\ p \in DOMAIN runs
    /\ runs[p].pc = "render"
    /\ LET r == runs[p]
           out == Render(template, Scope(r.question[r.row]))
       IN runs' = [runs EXCEPT ![p] =
              IF out.status = "ok"
              THEN [r EXCEPT !.prompt = out,
                             !.pc = "call",
                             !.trace = Append(@, Event("render", r.row))]
              ELSE IF r.row < Len(r.question)
              THEN [r EXCEPT !.prompt = out, !.row = r.row + 1]
              ELSE [r EXCEPT !.prompt = out,
                             !.has_prediction = TRUE,
                             !.answer_prediction = r.answers,
                             !.row = 1,
                             !.pc = "score"]]
    /\ UNCHANGED others

\* RenderRow that builds on the prompt of the row before.
RenderRowAccumulate(p) ==
    /\ p \in DOMAIN runs
    /\ runs[p].pc = "render"
    /\ LET r == runs[p]
           out == Render(template, Scope(r.question[r.row]))
       IN runs' = [runs EXCEPT ![p] =
              IF out.status = "ok"
              THEN [r EXCEPT !.prompt = [out EXCEPT !.text = r.prompt.text \o @],
                             !.pc = "call",
                             !.trace = Append(@, Event("render", r.row))]
              ELSE [r EXCEPT !.prompt = out,
                             !.pc = "failed",
                             !.error = [kind |-> out.status, name |-> out.name]]]
    /\ UNCHANGED others

\* The run after get_answer has evaluated its f-string for the row: the
\* prompt, or the error that leaves the cell.
AfterRender(r) ==
    LET out == Render(template, Scope(r.question[r.row]))
    IN IF out.status = "ok"
       THEN [r EXCEPT !.prompt = out,
                      !.pc = "call",
                      !.trace = Append(@, Event("render", r.row))]
       ELSE [r EXCEPT !.prompt = out,
                      !.pc = "failed",
                      !.error = [kind |-> out.status, name |-> out.name]]

\* get_answer evaluates the f-string for the row.
RenderRow(p) ==
    /\ p \in DOMAIN runs
    /\ runs[p].pc = "render"
    /\ runs' = [runs EXCEPT ![p] = AfterRender(runs[p])]
    /\ UNCHANGED others

\* CallPredict that goes on to the next row while the call is in flight.
CallPredictAhead(p) ==
    /\ p \in DOMAIN runs
    /\ runs[p].pc = "call"
    /\ LET r == runs[p]
           sent == [r EXCEPT !.calls = Append(@, Call(r.row, r.prompt.text)),
                             !.trace = Append(@, Event("call", r.row))]
       IN runs' = [runs EXCEPT ![p] =
              IF r.row < Len(r.question)
              THEN [sent EXCEPT !.row = r.row + 1, !.pc = "render"]
              ELSE [sent EXCEPT !.pc = "wait"]]
    /\ UNCHANGED others

\* AfterCall that answers a prompt it has sent before from the earlier
\* reply, without a call.
AfterCallCached(r) ==
    LET hits == {k \in 1..Len(r.calls) : r.calls[k].prompt = r.prompt.text}
    IN IF hits = {}
       THEN [r EXCEPT !.calls = Append(@, Call(r.row, r.prompt.text)),
                      !.pc = "wait",
                      !.trace = Append(@, Event("call", r.row))]
       ELSE LET text == r.calls[CHOOSE k \in hits : TRUE].text
                got == [r EXCEPT !.answers = Append(@, text)]
            IN IF r.row < Len(r.question)
               THEN [got EXCEPT !.row = r.row + 1, !.pc = "render"]
               ELSE [got EXCEPT !.has_prediction = TRUE,
                                !.answer_prediction = got.answers,
                                !.row = 1,
                                !.pc = "score"]

\* The run after get_answer has sent the prompt of the row to the model.
AfterCall(r) ==
    [r EXCEPT !.calls = Append(@, Call(r.row, r.prompt.text)),
              !.pc = "wait",
              !.trace = Append(@, Event("call", r.row))]

\* get_answer calls generation_model.predict(prompt=prompt).
CallPredict(p) ==
    /\ p \in DOMAIN runs
    /\ runs[p].pc = "call"
    /\ runs' = [runs EXCEPT ![p] = AfterCall(runs[p])]
    /\ UNCHANGED others

\* AfterReturn that puts the new answer in front of the earlier ones.
AfterReturnPrepend(r, text) ==
    LET n == Len(r.calls)
        got == [r EXCEPT !.calls[n].outcome = "returned",
                         !.calls[n].text = text,
                         !.answers = <<text>> \o @,
                         !.trace = Append(@, Event("return", r.row))]
    IN IF r.row < Len(r.question)
       THEN [got EXCEPT !.row = r.row + 1, !.pc = "render"]
       ELSE [got EXCEPT !.has_prediction = TRUE,
                        !.answer_prediction = got.answers,
                        !.row = 1,
                        !.pc = "score"]

\* The run after predict has returned text for the row: get_answer returns
\* it, apply keeps it and goes to the next row; after the last row the
\* column is assigned.
AfterReturn(r, text) ==
    LET n == Len(r.calls)
        got == [r EXCEPT !.calls[n].outcome = "returned",
                         !.calls[n].text = text,
                         !.answers = Append(@, text),
                         !.trace = Append(@, Event("return", r.row))]
    IN IF r.row < Len(r.question)
       THEN [got EXCEPT !.row = r.row + 1, !.pc = "render"]
       ELSE [got EXCEPT !.has_prediction = TRUE,
                        !.answer_prediction = got.answers,
                        !.row = 1,
                        !.pc = "score"]

\* PredictReturns with one list of answers for all the runs.
PredictReturnsShared(p) ==
    /\ p \in DOMAIN runs
    /\ runs[p].pc = "wait"
    /\ \E text \in Replies :
          runs' = [q \in DOMAIN runs |->
                      IF q = p THEN AfterReturn(runs[p], text)
                      ELSE [runs[q] EXCEPT !.answers = Append(@, text)]]
    /\ UNCHANGED others

PredictReturns(p) ==
    /\ p \in DOMAIN runs
    /\ runs[p].pc = "wait"
    /\ \E text \in Replies : runs' = [runs EXCEPT ![p] = AfterReturn(runs[p], text)]
    /\ UNCHANGED others

\* AfterRaise that calls predict again for the same row.
AfterRaiseRetry(r, e) ==
    LET n == Len(r.calls)
    IN [r EXCEPT !.calls[n].outcome = "raised",
                 !.calls[n].error = e,
                 !.pc = "call",
                 !.trace = Append(@, Event("raise", r.row))]

\* The run after predict has raised e: the exception leaves the cell.
AfterRaise(r, e) ==
    LET n == Len(r.calls)
    IN [r EXCEPT !.calls[n].outcome = "raised",
                 !.calls[n].error = e,
                 !.error = [kind |-> e, name |-> <<>>],
                 !.pc = "failed",
                 !.trace = Append(@, Event("raise", r.row))]

PredictRaises(p) ==
    /\ p \in DOMAIN runs
    /\ runs[p].pc = "wait"
    /\ \E e \in Errors : runs' = [runs EXCEPT ![p] = AfterRaise(runs[p], e)]
    /\ UNCHANGED others

\* AfterScore that replaces a prediction of score 100 by the expected answer.
AfterScoreSnaps(r) ==
    LET score == get_fuzzy_match(
                     [answer_groundtruth |-> r.answer_groundtruth[r.row],
                      answer_prediction |-> r.answer_prediction[r.row]])
        got == [r EXCEPT
                 !.scores = Append(@, score),
                 !.answer_prediction[r.row] =
                     IF score = 100 THEN r.answer_groundtruth[r.row] ELSE @,
                 !.trace = Append(@, Event("score", r.row))]
    IN IF r.row < Len(r.question)
       THEN [got EXCEPT !.row = r.row + 1]
       ELSE [got EXCEPT !.has_score = TRUE,
                        !.match_score = got.scores,
                        !.pc = "mean"]

\* The run after get_fuzzy_match has scored the row; after the last row
\* the column is assigned.
AfterScore(r) ==
    LET got == [r EXCEPT
                 !.scores = Append(@, get_fuzzy_match(
                     [answer_groundtruth |-> r.answer_groundtruth[r.row],
                      answer_prediction |-> r.answer_prediction[r.row]])),
                 !.trace = Append(@, Event("score", r.row))]
    IN IF r.row < Len(r.question)
       THEN [got EXCEPT !.row = r.row + 1]
       ELSE [got EXCEPT !.has_score = TRUE,
                        !.match_score = got.scores,
                        !.pc = "mean"]

ScoreRecord(p) ==
    /\ p \in DOMAIN runs
    /\ runs[p].pc = "score"
    /\ runs' = [runs EXCEPT ![p] = AfterScore(runs[p])]
    /\ UNCHANGED others

\* The run after the mean of its match_score column is printed.
AfterMean(r) == [r EXCEPT !.mean_score = Mean(r.match_score), !.pc = "done"]

\* The last cell prints the mean of the match_score column.
RunMean(p) ==
    /\ p \in DOMAIN runs
    /\ runs[p].pc = "mean"
    /\ runs' = [runs EXCEPT ![p] = AfterMean(runs[p])]
    /\ UNCHANGED others

\* Any step of run p.
Step(p) ==
    \/ RenderRow(p)
    \/ CallPredict(p)
    \/ PredictReturns(p)
    \/ PredictRaises(p)
    \/ ScoreRecord(p)
    \/ RunMean(p)

\* One run over one DataFrame.
Init ==
    /\ pc = "run"
    /\ \/ /\ pieces \in RunTemplates
          /\ bindings \in Globals
          /\ \E b \in Batches : runs = <<NewRun(b[1], b[2])>>
       \/ /\ pieces = QuestionTemplate
          /\ bindings = <<>>
          /\ runs = <<NewRun(<<TwoPlusTwo>>, <<Four>>)>>
    /\ template = FString(pieces)
    /\ prompt = NoResult
    /\ matcher \in Matchers(RunKeys)
    /\ ScoreIdle
    /\ MeanIdle
    /\ LoopIdle
    /\ ReportIdle

Next ==
    \/ \E p \in Invocations : RenderRow(p)
    \/ \E p \in Invocations : CallPredict(p)
    \/ \E p \in Invocations : PredictReturns(p)
    \/ \E p \in Invocations : PredictRaises(p)
    \/ \E p \in Invocations : ScoreRecord(p)
    \/ \E p \in Invocations : RunMean(p)

Spec == Init /\ [][Next]_vars

\* Two runs over two DataFrames, the parts of one batch, with the cells of
\* one interleaved with the cells of the other.
SubBatches ==
    {b \in Batches : \A i \in 1..Len(b[2]) : b[2][i] = <<"a">>}

InitPar ==
    /\ pc = "run"
    /\ pieces \in RunTemplates
    /\ bindings \in Globals
    /\ \E b1 \in SubBatches, b2 \in SubBatches :
          /\ Len(b1[1]) + Len(b2[1]) <= MaxRows + 1
          /\ runs = <<NewRun(b1[1], b1[2]), NewRun(b2[1], b2[2])>>
    /\ template = FString(pieces)
    /\ prompt = NoResult
    /\ matcher \in Matchers(RunKeys)
    /\ ScoreIdle
    /\ MeanIdle
    /\ LoopIdle
    /\ ReportIdle

SpecPar == InitPar /\ [][Next]_vars

(***************************************************************************)
(* The code completion loop.                                               *)
(*                                                                         *)
(*     i = 0                                                               *)
(*     while(i<3):                                                         *)
(*       response = code_completion_model.predict(prefix=prefix,)          *)
(*       print(response.text)                                              *)
(*       prefix = response.text                                            *)
(*       i+=1                                                              *)
(*                                                                         *)
(* The loop tests nothing but i; what predict raises leaves the cell.      *)
(***************************************************************************)
LoopCount == 3

Prefixes == {<<"d">>, <<"c">>}

Completions == {<<>>, <<"d">>, <<"r">>}

NewLoop(prefix) ==
    [initial |-> prefix,
     prefix |-> prefix,
     i |-> 0,
     pc |-> "test",
     calls |-> <<>>,
     printed |-> <<>>,
     error |-> "none"]

\* Everything but the loop.
rest == <<pc, pieces, template, bindings, prompt, expected, predicted,
          match_score, column, mean_score, runs, report, matcher>>

InitLoop ==
    /\ pc = "loop"
    /\ \E prefix \in Prefixes : loop = NewLoop(prefix)
    /\ RenderIdle
    /\ ScoreIdle
    /\ MeanIdle
    /\ RunIdle
    /\ ReportIdle
    /\ MatcherIdle

\* while(i<3) holds: predict is called with the current prefix.
LoopCall ==
    /\ loop.pc = "test"
    /\ loop.i < LoopCount
    /\ loop' = [loop EXCEPT
                 !.calls = Append(@, [prefix |-> loop.prefix,
                                      outcome |-> "pending",
                                      text |-> <<>>]),
                 !.pc = "wait"]
    /\ UNCHANGED rest

\* LoopReturn that adds the text to the prefix it has.
LoopReturnAppend ==
    /\ loop.pc = "wait"
    /\ \E text \in Completions :
          loop' = [loop EXCEPT
                    !.calls[Len(loop.calls)].outcome = "returned",
                    !.calls[Len(loop.calls)].text = text,
                    !.printed = Append(@, text),
                    !.prefix = @ \o text,
                    !.i = loop.i + 1,
                    !.pc = "test"]
    /\ UNCHANGED rest

\* LoopReturn that leaves i as it is.
LoopReturnNoCount ==
    /\ loop.pc = "wait"
    /\ \E text \in Completions :
          loop' = [loop EXCEPT
                    !.calls[Len(loop.calls)].outcome = "returned",
                    !.calls[Len(loop.calls)].text = text,
                    !.printed = Append(@, text),
                    !.prefix = text,
                    !.pc = "test"]
    /\ UNCHANGED rest

\* predict returns: the text is printed, becomes the prefix, i goes up.
LoopReturn ==
    /\ loop.pc = "wait"
    /\ \E text \in Completions :
          loop' = [loop EXCEPT
                    !.calls[Len(loop.calls)].outcome = "returned",
                    !.calls[Len(loop.calls)].text = text,
                    !.printed = Append(@, text),
                    !.prefix = text,
                    !.i = loop.i + 1,
                    !.pc = "test"]
    /\ UNCHANGED rest

\* predict raises: the exception leaves the loop and the cell.
LoopRaise ==
    /\ loop.pc = "wait"
    /\ \E e \in Errors :
          loop' = [loop EXCEPT
                    !.calls[Len(loop.calls)].outcome = "raised",
                    !.error = e,
                    !.pc = "failed"]
    /\ UNCHANGED rest

\* LoopExit that also leaves when predict returned what it was sent.
LoopExitConverged ==
    /\ loop.pc = "test"
    /\ \/ ~(loop.i < LoopCount)
       \/ /\ loop.i > 0
          /\ loop.calls[loop.i].prefix = loop.prefix
    /\ loop' = [loop EXCEPT !.pc = "done"]
    /\ UNCHANGED rest

\* while(i<3) fails: the cell is over.
LoopExit ==
    /\ loop.pc = "test"
    /\ ~(loop.i < LoopCount)
    /\ loop' = [loop EXCEPT !.pc = "done"]
    /\ UNCHANGED rest

NextLoop ==
    \/ LoopCall
    \/ LoopReturn
    \/ LoopRaise
    \/ LoopExit

SpecLoop == InitLoop /\ [][NextLoop]_vars

\* The loop when the interpreter goes on to its next statement and every
\* predict call comes back, with a response or with an exception.
SpecLoopFair == SpecLoop /\ WF_vars(NextLoop)

(***************************************************************************)
(* The classification report of the text classification notebook.          *)
(*                                                                         *)
(* classification_report(y_true, y_pred) has one line for every label that *)
(* occurs in either column: precision = tp / predicted, recall = tp /      *)
(* true, f1 = 2 tp / (predicted + true), each 0.0 when its divisor is 0,   *)
(* and support = true; then the accuracy, the plain mean and the mean      *)
(* weighted by support of the three figures, and the number of rows.  The  *)
(* figures are printed with two decimals and kept here in hundredths; the  *)
(* order of the lines is not kept.  The columns hold at least one row.     *)
(***************************************************************************)
MaxReviews == 3

Labels == {"negative", "neutral", "positive"}

\* What the model may answer: a label, or some other text.
Sentiments == Labels \cup {"mixed"}

\* The columns of the notebook.
ReviewTruth == <<"positive", "positive", "negative", "neutral">>

ReviewColumns ==
    UNION {[1..k -> Labels] \X [1..k -> Sentiments] : k \in 1..MaxReviews}
    \cup {<<ReviewTruth, ReviewTruth>>}

\* The number of rows of col that hold l.
CountOf(col, l) == Cardinality({i \in 1..Len(col) : col[i] = l})

\* The rows where l is both expected and predicted.
TruePositives(yt, yp, l) ==
    Cardinality({i \in 1..Len(yt) : yt[i] = l /\ yp[i] = l})

UniqueLabels(yt, yp) ==
    {yt[i] : i \in 1..Len(yt)} \cup {yp[i] : i \in 1..Len(yp)}

\* n / d as a fraction, 0.0 when d is 0.
Div(n, d) == IF d = 0 THEN <<0, 1>> ELSE <<n, d>>

AddFrac(a, b) == <<a[1] * b[2] + b[1] * a[2], a[2] * b[2]>>

\* A fraction printed with two decimals, in hundredths: the nearest one,
\* the even one of two that are equally near.
Hundredths(f) ==
    LET q == (100 * f[1]) \div f[2]
        rem == (100 * f[1]) % f[2]
    IN IF 2 * rem > f[2] THEN q + 1
       ELSE IF 2 * rem < f[2] THEN q
       ELSE IF q % 2 = 0 THEN q
       ELSE q + 1

\* Precision with the number of rows as divisor.
PrecisionOverAll(yt, yp, l) == Div(TruePositives(yt, yp, l), Len(yp))

Precision(yt, yp, l) == Div(TruePositives(yt, yp, l), CountOf(yp, l))

Recall(yt, yp, l) == Div(TruePositives(yt, yp, l), CountOf(yt, l))

FScore(yt, yp, l) ==
    IF TruePositives(yt, yp, l) = 0 THEN <<0, 1>>
    ELSE <<2 * TruePositives(yt, yp, l), CountOf(yp, l) + CountOf(yt, l)>>

Accuracy(yt, yp) ==
    <<Cardinality({i \in 1..Len(yt) : yt[i] = yp[i]}), Len(yt)>>

\* The sum of w(l) * F(l) over the labels ls.
RECURSIVE WeightedSum(_, _, _)
WeightedSum(ls, F, w) ==
    IF ls = {} THEN <<0, 1>>
    ELSE LET l == CHOOSE l \in ls : TRUE
         IN AddFrac(<<w[l] * F[l][1], F[l][2]>>, WeightedSum(ls \ {l}, F, w))

\* The plain mean and the mean weighted by support of F over the labels.
MacroAvg(ls, F) ==
    LET sum == WeightedSum(ls, F, [l \in ls |-> 1])
    IN <<sum[1], sum[2] * Cardinality(ls)>>

WeightedAvg(yt, ls, F) ==
    LET sum == WeightedSum(ls, F, [l \in ls |-> CountOf(yt, l)])
    IN <<sum[1], sum[2] * Len(yt)>>

Figures(p, r, f) ==
    [precision |-> Hundredths(p), recall |-> Hundredths(r), f1 |-> Hundredths(f)]

\* classification_report(y_true, y_pred).
ClassificationReport(yt, yp) ==
    LET ls == UniqueLabels(yt, yp)
        P == [l \in ls |-> Precision(yt, yp, l)]
        R == [l \in ls |-> Recall(yt, yp, l)]
        F == [l \in ls |-> FScore(yt, yp, l)]
    IN [rows |-> [l \in ls |->
                     [figures |-> Figures(P[l], R[l], F[l]),
                      support |-> CountOf(yt, l)]],
        accuracy |-> Hundredths(Accuracy(yt, yp)),
        macro |-> Figures(MacroAvg(ls, P), MacroAvg(ls, R), MacroAvg(ls, F)),
        weighted |-> Figures(WeightedAvg(yt, ls, P), WeightedAvg(yt, ls, R),
                             WeightedAvg(yt, ls, F)),
        total |-> Len(yt)]

\* Everything but the report.
nonreport == <<pc, pieces, template, bindings, prompt, expected, predicted,
               match_score, column, mean_score, runs, loop, matcher>>

InitReport ==
    /\ pc = "report"
    /\ \E cols \in ReviewColumns :
          report = [sentiment_groundtruth |-> cols[1],
                    sentiment_prediction |-> cols[2],
                    pc |-> "start",
                    text |-> <<>>]
    /\ RenderIdle
    /\ ScoreIdle
    /\ MeanIdle
    /\ RunIdle
    /\ LoopIdle
    /\ MatcherIdle

\* The cell displays the classification report of the two columns.
DisplayReport ==
    /\ report.pc = "start"
    /\ report' = [report EXCEPT
                   !.text = ClassificationReport(report.sentiment_groundtruth,
                                                 report.sentiment_prediction),
                   !.pc = "reported"]
    /\ UNCHANGED nonreport

NextReport == DisplayReport

SpecReport == InitReport /\ [][NextReport]_vars

(***************************************************************************)
(* Claims about render.                                                    *)
(***************************************************************************)
Covered(T, B) == Placeholders(T) \subseteq DOMAIN B

\* The pieces with each name replaced by its value, joined in order.
Substituted(segs, B) ==
    Concat([i \in 1..Len(segs) |->
               IF segs[i].kind = "ph" THEN B[segs[i].val] ELSE segs[i].val])

\* C1: when every placeholder of the template is bound, render returns the
\* template's pieces in their order, each literal piece verbatim and each
\* placeholder occurrence replaced by its bound value.
C1_RenderSubstitutes ==
    (pc = "rendered" /\ Covered(template, bindings)) =>
        prompt = Result("ok", Substituted(pieces, bindings), <<>>)

C1_Witness ==
    /\ pc = "rendered"
    /\ Covered(template, bindings)
    /\ Len(pieces) = 3
    /\ pieces[1].kind = "lit" /\ pieces[2].kind = "ph" /\ pieces[3].kind = "lit"
    /\ bindings[pieces[2].val] # <<>>
    /\ prompt.status = "ok"
    /\ Len(prompt.text) = 2 + Len(bindings[pieces[2].val])

\* C2: when some placeholder of the template is not bound, render fails
\* with an error that names an unbound placeholder of the template (the
\* first one met) and returns no string.
C2_MissingBindingFails ==
    (pc = "rendered" /\ ~Covered(template, bindings)) =>
        /\ prompt.status = "NameError"
        /\ prompt.text = <<>>
        /\ prompt.name \in Placeholders(template) \ DOMAIN bindings
        /\ \E k \in 1..Len(pieces) :
              /\ pieces[k] = Ph(prompt.name)
              /\ \A i \in 1..(k - 1) :
                    pieces[i].kind = "ph" => pieces[i].val \in DOMAIN bindings

C2_Witness ==
    /\ pc = "rendered"
    /\ ~Covered(template, bindings)
    /\ DOMAIN bindings # {}
    /\ \E k \in 1..Len(pieces) : pieces[k].kind = "lit"
    /\ prompt.status = "NameError"
    /\ prompt.name \notin DOMAIN bindings

\* C3 as stated: whenever every placeholder is bound, the rendered text
\* holds no brace.
C3_NoBracesInOutput ==
    (pc = "rendered" /\ Covered(template, bindings)) =>
        /\ prompt.status = "ok"
        /\ ~HasBrace(prompt.text)
        /\ Placeholders(prompt.text) = {}

NoLiteralBrace(segs) ==
    \A i \in 1..Len(segs) : segs[i].kind = "lit" => ~HasBrace(segs[i].val)

NoBraceInValues(T, B) ==
    \A n \in Placeholders(T) \cap DOMAIN B : ~HasBrace(B[n])

\* C3 amended: when every placeholder is bound, the template's literal text
\* holds no escaped brace and no substituted value holds a brace, the
\* rendered text holds no brace and re-extracting placeholders from it
\* yields none.
C3_NoBracesUnlessGiven ==
    (/\ pc = "rendered"
     /\ Covered(template, bindings)
     /\ NoLiteralBrace(pieces)
     /\ NoBraceInValues(template, bindings)) =>
        /\ prompt.status = "ok"
        /\ ~HasBrace(prompt.text)
        /\ Placeholders(prompt.text) = {}

C3_Witness ==
    /\ pc = "rendered"
    /\ Covered(template, bindings)
    /\ NoLiteralBrace(pieces)
    /\ NoBraceInValues(template, bindings)
    /\ Placeholders(template) # {}
    /\ HasBrace(template)
    /\ prompt.status = "ok"
    /\ prompt.text # <<>>
    /\ ~HasBrace(prompt.text)

(***************************************************************************)
(* Claims about score.                                                     *)
(***************************************************************************)
Scored == pc = "scored"

BothNonEmpty == Len(expected) > 0 /\ Len(predicted) > 0

\* C4: the score of every pair of strings is an integer from 0 to 100.
C4_ScoreInRange == Scored => match_score \in 0..100

C4_Witness ==
    /\ Scored
    /\ BothNonEmpty
    /\ expected # predicted
    /\ match_score > 0
    /\ match_score < 100

\* C5: a string scores 100 against itself, the empty string included, and
\* a pair of which exactly one string is empty scores 0.
C5_IdentityAndEmpty ==
    Scored =>
        /\ (expected = predicted => match_score = 100)
        /\ ((Len(expected) = 0) # (Len(predicted) = 0) => match_score = 0)

C5_Witness ==
    /\ Scored
    /\ expected = <<>>
    /\ predicted = <<>>
    /\ match_score = 100

\* C6: "World Wide Web" scores 100 against itself and "The Pacific Ocean"
\* scores at least 90 against "Pacific Ocean".
C6_NotebookScores ==
    Scored =>
        /\ (expected = WorldWideWeb /\ predicted = WorldWideWeb
                => match_score = 100)
        /\ (expected = ThePacificOcean /\ predicted = PacificOcean
                => match_score >= 90)

C6_Witness ==
    /\ Scored
    /\ expected = ThePacificOcean
    /\ predicted = PacificOcean
    /\ match_score = 100

Shorter == IF Len(expected) <= Len(predicted) THEN expected ELSE predicted

Longer == IF Len(expected) <= Len(predicted) THEN predicted ELSE expected

\* C7 as stated: the score of two non-empty strings is round(200 * M / T)
\* for T the total length of both strings and M a number of matching
\* characters (whatever number, up to the length of the shorter string).
C7_RatioOverBothStrings ==
    (Scored /\ BothNonEmpty) =>
        \E M \in 0..Len(Shorter) :
            match_score = Intr100(<<2 * M, Len(expected) + Len(predicted)>>)

\* The piece of s of at most n characters that starts after its first p.
Window(s, n, p) == SubSeq(s, p + 1, Min(p + n, Len(s)))

\* round(200 * M / T) for the matching characters M of a and w and the
\* total length T of a and w.
WindowScore(a, w) == Intr100(Ratio(a, w))

\* C7 amended: the score of two non-empty strings is round(200 * M / T)
\* where M counts the matching characters of the shorter string and a
\* window of the longer one, no longer than the shorter string, and T is
\* the length of the shorter string plus the length of that window; the
\* window that ends the longer string never scores higher.
C7_RatioOverWindow ==
    (Scored /\ BothNonEmpty) =>
        /\ \E p \in 0..(Len(Longer) - 1) :
               match_score = WindowScore(Shorter, Window(Longer, Len(Shorter), p))
        /\ match_score >=
               WindowScore(Shorter,
                           Window(Longer, Len(Shorter), Len(Longer) - Len(Shorter)))

C7_Witness ==
    /\ Scored
    /\ BothNonEmpty
    /\ Len(expected) < Len(predicted)
    /\ match_score = 100
    /\ \A M \in 0..Len(Shorter) :
           match_score # Intr100(<<2 * M, Len(expected) + Len(predicted)>>)

IsPrefix(s, t) == Len(s) <= Len(t) /\ SubSeq(t, 1, Len(s)) = s

IsSuffix(s, t) == Len(s) <= Len(t) /\ SubSeq(t, Len(t) - Len(s) + 1, Len(t)) = s

\* C8: when one non-empty string is the other with characters added at an
\* end, the partial ratio is 100; for "this is a test" and "this is a
\* test!" it is 100 while the plain ratio is 97.
C8_AdditionsIgnored ==
    (Scored /\ BothNonEmpty) =>
        /\ (\/ IsPrefix(expected, predicted) \/ IsSuffix(expected, predicted)
            \/ IsPrefix(predicted, expected) \/ IsSuffix(predicted, expected))
               => match_score = 100
        /\ (expected = ThisIsATest /\ predicted = ThisIsATestBang)
               => FuzzRatio(expected, predicted) = 97

C8_Witness ==
    /\ Scored
    /\ expected = ThisIsATest
    /\ predicted = ThisIsATestBang
    /\ match_score = 100
    /\ FuzzRatio(expected, predicted) = 97

(***************************************************************************)
(* Claims about aggregate.                                                 *)
(***************************************************************************)
Averaged == pc = "averaged"

\* The rows that hold a score.
Present == {i \in 1..Len(column) : column[i] # NaN}

RECURSIVE SumOver(_)
SumOver(rows) ==
    IF rows = {} THEN 0
    ELSE LET i == CHOOSE i \in rows : TRUE
         IN column[i] + SumOver(rows \ {i})

\* C9: the aggregate is the arithmetic mean of exactly the scores that are
\* present: their sum over their number; a row without a score adds
\* nothing to either.
C9_MeanOfPresentScores ==
    (Averaged /\ Present # {}) =>
        /\ mean_score.raised = "none"
        /\ mean_score.value = <<SumOver(Present), Cardinality(Present)>>

C9_Witness ==
    /\ Averaged
    /\ Len(column) = 3
    /\ Cardinality(Present) = 2
    /\ SumOver(Present) = 167
    /\ mean_score.value = <<167, 2>>

\* C10: with no scored row, the empty batch included, aggregate raises
\* EmptyBatchError and returns no number.
C10_EmptyBatchRaises ==
    (Averaged /\ Present = {}) => mean_score.raised = "EmptyBatchError"

\* Every row that holds a score holds the score s.
AllScores(s) == \A i \in Present : column[i] = s

\* C11: when every scored record of a non-empty batch has the same score
\* s, the aggregate is exactly s: the sum of the scores is s times their
\* number, so the quotient it returns is s; four records of 100 give 100.0.
C11_EqualScoresMean ==
    /\ \A s \in ScoreVals :
          (Averaged /\ Present # {} /\ AllScores(s)) =>
              /\ mean_score.raised = "none"
              /\ mean_score.value[2] > 0
              /\ mean_score.value[1] = s * mean_score.value[2]
    /\ (Averaged /\ column = <<100, 100, 100, 100>>) =>
          mean_score.value = <<400, 4>>

C11_Witness ==
    /\ Averaged
    /\ column = <<100, 100, 100, 100>>
    /\ AllScores(100)
    /\ mean_score.value = <<400, 4>>

(***************************************************************************)
(* Claims about the evaluation run.                                        *)
(***************************************************************************)
Rows(p) == 1..Len(runs[p].question)

\* The record of row i has its predicted field.
HasPredicted(p, i) ==
    runs[p].has_prediction /\ i \in 1..Len(runs[p].answer_prediction)

\* The record of row i has its score field.
HasScore(p, i) == runs[p].has_score /\ i \in 1..Len(runs[p].match_score)

\* The predict call made for row i has returned text.
CallReturned(p, i, text) ==
    \E k \in 1..Len(runs[p].calls) :
        /\ runs[p].calls[k].row = i
        /\ runs[p].calls[k].outcome = "returned"
        /\ runs[p].calls[k].text = text

\* C12: in every state of a run, a record has its predicted field only
\* after the predict call for that record has returned, and it has its
\* score field only if its expected field is present, and not before its
\* predicted field.
C12_FieldsInOrder ==
    \A p \in DOMAIN runs : \A i \in Rows(p) :
        /\ HasPredicted(p, i) =>
               CallReturned(p, i, runs[p].answer_prediction[i])
        /\ HasScore(p, i) =>
               /\ runs[p].answer_groundtruth[i] # None
               /\ HasPredicted(p, i)

\* The event at position y of the trace of run p.
Events(p) == 1..Len(runs[p].trace)

\* The step kind of row i has happened before position y.
Before(p, y, kind, i) ==
    \E x \in 1..(y - 1) : runs[p].trace[x] = Event(kind, i)

\* C13: the render, call and score steps of record k have all completed
\* before any step of record k+1 starts.
C13_OneRecordAtATime ==
    \A p \in DOMAIN runs : \A y \in Events(p) :
        LET k == runs[p].trace[y][2] - 1
        IN k >= 1 =>
               \A kind \in {"render", "call", "return", "score"} :
                   Before(p, y, kind, k)

\* C13 as the cells have it: within the pass that predicts, record k is
\* rendered, sent and answered before any step of record k+1 starts; within
\* the pass that scores, record k is scored before record k+1; and no
\* record is scored before every record has its answer.
C13_OneRecordAtATimePerPass ==
    \A p \in DOMAIN runs : \A y \in Events(p) :
        LET kind == runs[p].trace[y][1]
            i == runs[p].trace[y][2]
        IN /\ kind = "call" => Before(p, y, "render", i)
           /\ kind \in {"return", "raise"} => Before(p, y, "call", i)
           /\ (kind \in {"render", "call", "return", "raise"} /\ i > 1) =>
                  \A done \in {"render", "call", "return"} :
                      Before(p, y, done, i - 1)
           /\ (kind = "score" /\ i > 1) => Before(p, y, "score", i - 1)
           /\ kind = "score" => \A j \in Rows(p) : Before(p, y, "return", j)

C13_Witness ==
    /\ Len(runs[1].question) = 2
    /\ runs[1].pc = "done"
    /\ runs[1].trace = <<Event("render", 1), Event("call", 1), Event("return", 1),
                         Event("render", 2), Event("call", 2), Event("return", 2),
                         Event("score", 1), Event("score", 2)>>

\* The prompt get_answer builds for the question q.
PromptFor(q) == Render(template, Scope(q)).text

\* C14: the records of a batch are in input order: the i-th record carries
\* the i-th question and expected answer that were given, its prediction is
\* the answer to the prompt built from that question, and its score is the
\* score of its own expected answer and prediction.
C14_InputOrder ==
    \A p \in DOMAIN runs :
        LET r == runs[p]
        IN /\ r.question = r.given.question
           /\ r.answer_groundtruth = r.given.answer_groundtruth
           /\ r.has_prediction =>
                  /\ Len(r.answer_prediction) = Len(r.given.question)
                  /\ \A i \in Rows(p) :
                         /\ r.calls[i].row = i
                         /\ r.calls[i].prompt = PromptFor(r.given.question[i])
                         /\ r.answer_prediction[i] = r.calls[i].text
           /\ r.has_score =>
                  /\ Len(r.match_score) = Len(r.given.question)
                  /\ \A i \in Rows(p) :
                         r.match_score[i] = get_fuzzy_match(
                             [answer_groundtruth |-> r.given.answer_groundtruth[i],
                              answer_prediction |-> r.answer_prediction[i]])

C14_Witness ==
    /\ runs[1].has_score
    /\ runs[1].given.question = <<<<"a">>, <<"b">>>>
    /\ runs[1].given.answer_groundtruth = <<<<"a">>, <<"a", "b">>>>
    /\ runs[1].calls[1].prompt # runs[1].calls[2].prompt
    /\ runs[1].answer_prediction = <<<<"a">>, <<"b", "a">>>>
    /\ Len(runs[1].match_score) = 2
    /\ runs[1].match_score[1] = 100
    /\ runs[1].match_score[2] \in {50, 67}

\* The f-string of get_answer can be evaluated for row i.
Renders(p, i) == Render(template, Scope(runs[p].question[i])).status = "ok"

\* Row i is behind the row the run is at.
Passed(p, i) ==
    \/ i < runs[p].row
    \/ runs[p].has_prediction

\* The run stopped on the error of its f-string.
RenderFailed(p) == runs[p].error.kind = "NameError"

\* C15: when rendering fails for a record, the run stops with that error:
\* the failing record and the later ones are neither sent to the model nor
\* scored, no column is assigned, no step follows, and no record whose
\* rendering fails is passed over.
C15_RenderFailureStops ==
    \A p \in DOMAIN runs :
        LET r == runs[p]
        IN /\ \A i \in Rows(p) : Passed(p, i) => Renders(p, i)
           /\ RenderFailed(p) =>
                  /\ r.pc = "failed"
                  /\ ~Renders(p, r.row)
                  /\ r.error.name \in Placeholders(template)
                  /\ r.error.name \notin DOMAIN Scope(r.question[r.row])
                  /\ Len(r.calls) = r.row - 1
                  /\ \A y \in Events(p) : r.trace[y][2] < r.row
                  /\ ~r.has_prediction
                  /\ ~r.has_score
                  /\ r.scores = <<>>
                  /\ ~ENABLED Step(p)

C15_Witness ==
    /\ RenderFailed(1)
    /\ Len(runs[1].question) = 2
    /\ runs[1].row = 1
    /\ runs[1].error.name = <<"c">>
    /\ runs[1].calls = <<>>
    /\ runs[1].answers = <<>>

\* The predict calls the run has made for row i.
CallsFor(p, i) == {k \in 1..Len(runs[p].calls) : runs[p].calls[k].row = i}

\* C16: predict is called at most once for a record, whatever the outcome;
\* when it raises, the run stops with that very error: no call follows, for
\* that record or another, and no column is assigned.
C16_OneCallPerRecord ==
    \A p \in DOMAIN runs :
        LET r == runs[p]
        IN /\ \A i \in Rows(p) : Cardinality(CallsFor(p, i)) <= 1
           /\ \A k \in 1..Len(r.calls) :
                  r.calls[k].outcome = "raised" =>
                      /\ k = Len(r.calls)
                      /\ r.calls[k].error \in Errors
                      /\ r.error = [kind |-> r.calls[k].error, name |-> <<>>]
                      /\ r.pc = "failed"
                      /\ ~r.has_prediction
                      /\ ~ENABLED Step(p)

C16_Witness ==
    /\ Len(runs[1].question) = 2
    /\ Len(runs[1].calls) = 2
    /\ runs[1].calls[1].outcome = "returned"
    /\ runs[1].calls[2].outcome = "raised"
    /\ runs[1].calls[2].row = 2
    /\ runs[1].error.kind = "ResourceExhausted"
    /\ runs[1].pc = "failed"

(***************************************************************************)
(* Claims about the code completion loop.                                  *)
(***************************************************************************)
\* The calls of the loop that have returned.
LoopReturned == {k \in 1..Len(loop.calls) : loop.calls[k].outcome = "returned"}

\* The last call returned the prefix it was sent.
Converged ==
    /\ loop.i > 0
    /\ loop.calls[loop.i].prefix = loop.calls[loop.i].text

\* C17: when every call returns, the loop makes exactly three predict
\* calls, whatever the responses are: it goes on after a response that
\* repeats its prefix, and it ends only after the third call.
C17_ThreeCalls ==
    /\ Len(loop.calls) <= LoopCount
    /\ Cardinality(LoopReturned) = loop.i
    /\ loop.pc = "done" =>
           /\ loop.i = LoopCount
           /\ Len(loop.calls) = LoopCount
           /\ LoopReturned = 1..LoopCount
    /\ (loop.pc = "test" /\ loop.i < LoopCount) =>
           /\ ENABLED LoopCall
           /\ ~ENABLED LoopExit

C17_Witness ==
    /\ loop.pc = "done"
    /\ Len(loop.calls) = 3
    /\ loop.calls[1].prefix = <<"d">>
    /\ loop.calls[1].text = <<"d">>
    /\ loop.calls[2].text = <<"d">>
    /\ loop.calls[3].text = <<"r">>

(***************************************************************************)
(* Claims about a whole run.                                               *)
(***************************************************************************)
\* The template "Q: {q}\nA:" as the cell spells it.
QuestionSource == <<"Q", ":", " ", "{", "q", "}", "\n", "A", ":">>

\* The prompt "Q: What is 2+2?\nA:".
QuestionPrompt == <<"Q", ":", " ">> \o TwoPlusTwo \o <<"\n", "A", ":">>

\* The run over the one question "What is 2+2?" with expected answer "4".
OneQuestion ==
    /\ template = QuestionSource
    /\ Scope(TwoPlusTwo) = (RowName :> TwoPlusTwo)
    /\ runs[1].given = [question |-> <<TwoPlusTwo>>,
                        answer_groundtruth |-> <<Four>>]

\* C18: the template "Q: {q}\nA:" with q bound to "What is 2+2?" renders
\* to exactly "Q: What is 2+2?\nA:", which is the prompt sent; when the
\* model answers "4" and "4" is expected, the run ends with exactly one
\* record, of score 100, and the mean 100.0.
C18_EndToEnd ==
    OneQuestion =>
        /\ Render(template, Scope(TwoPlusTwo)) = Result("ok", QuestionPrompt, <<>>)
        /\ runs[1].pc \notin {"render", "failed"} =>
               runs[1].prompt.text = QuestionPrompt
        /\ \A k \in 1..Len(runs[1].calls) :
               runs[1].calls[k].prompt = QuestionPrompt
        /\ (runs[1].pc = "done" /\ runs[1].calls[1].text = Four) =>
               /\ Len(runs[1].calls) = 1
               /\ runs[1].question = <<TwoPlusTwo>>
               /\ runs[1].answer_groundtruth = <<Four>>
               /\ runs[1].answer_prediction = <<Four>>
               /\ runs[1].match_score = <<100>>
               /\ runs[1].mean_score = [raised |-> "none", value |-> <<100, 1>>]

C18_Witness ==
    /\ OneQuestion
    /\ runs[1].pc = "done"
    /\ runs[1].calls[1].prompt = QuestionPrompt
    /\ runs[1].calls[1].text = Four
    /\ runs[1].match_score = <<100>>
    /\ runs[1].mean_score.value = <<100, 1>>

\* Run p evaluates its f-string in this step.
RenderStep(p) ==
    /\ p \in DOMAIN runs
    /\ runs[p].pc = "render"
    /\ runs' # runs

\* What a step of run p leaves alone when it writes nothing but the
\* prompt, the position and the error of that run.
RenderFrame(p) ==
    /\ UNCHANGED <<pieces, template, bindings, others>>
    /\ DOMAIN runs' = DOMAIN runs
    /\ \A q \in DOMAIN runs \ {p} : runs'[q] = runs[q]
    /\ runs'[p] = [runs[p] EXCEPT !.prompt = runs'[p].prompt,
                                  !.pc = runs'[p].pc,
                                  !.error = runs'[p].error,
                                  !.trace = runs'[p].trace]

\* The prompt built in this step is the one built before for the same
\* question.
SamePromptAgain(p) ==
    \A k \in 1..Len(runs[p].calls) :
        runs[p].question[runs[p].calls[k].row] = runs[p].question[runs[p].row] =>
            /\ runs'[p].prompt.status = "ok"
            /\ runs'[p].prompt.text = runs[p].calls[k].prompt

\* C19: render is deterministic and has no side effect: evaluated again
\* with the same template and the same names in scope it gives the same
\* prompt, and evaluating it changes neither the template, nor the names
\* in scope, nor any record or other state of a run.
C19_RenderIsPure ==
    [][\A p \in Invocations :
           RenderStep(p) => (RenderFrame(p) /\ SamePromptAgain(p))]_vars

C19_Witness ==
    /\ Len(runs[1].calls) = 2
    /\ runs[1].question[1] = runs[1].question[2]
    /\ runs[1].calls[1].prompt = runs[1].calls[2].prompt
    /\ runs[1].calls[1].prompt = runs[1].prompt.text

(***************************************************************************)
(* Claims about two runs.                                                  *)
(***************************************************************************)
\* The run that starts at r and meets the outcomes outs of its predict
\* calls, with no other run beside it.
RECURSIVE RunAlone(_, _)
RunAlone(r, outs) ==
    IF r.pc = "render" THEN RunAlone(AfterRender(r), outs)
    ELSE IF r.pc = "call" THEN RunAlone(AfterCall(r), outs)
    ELSE IF r.pc = "wait" THEN
        IF outs = <<>> THEN r
        ELSE IF Head(outs).outcome = "returned"
        THEN RunAlone(AfterReturn(r, Head(outs).text), Tail(outs))
        ELSE RunAlone(AfterRaise(r, Head(outs).error), Tail(outs))
    ELSE IF r.pc = "score" THEN RunAlone(AfterScore(r), outs)
    ELSE IF r.pc = "mean" THEN RunAlone(AfterMean(r), outs)
    ELSE r

Over(p) == runs[p].pc \in {"done", "failed"}

\* C20: two runs over separate parts of a batch share nothing they write:
\* however their steps interleave, each ends, for its part, with the
\* records (order, predictions, scores) it ends with when it runs alone
\* and predict answers it the same way.
C20_RunsDoNotInterfere ==
    \A p \in DOMAIN runs :
        /\ runs[p].given = [question |-> runs[p].question,
                            answer_groundtruth |-> runs[p].answer_groundtruth]
        /\ Over(p) =>
               runs[p] = RunAlone(NewRun(runs[p].given.question,
                                         runs[p].given.answer_groundtruth),
                                  runs[p].calls)

C20_Witness ==
    /\ DOMAIN runs = {1, 2}
    /\ Len(runs[1].question) = 2
    /\ runs[1].pc = "done"
    /\ runs[2].pc = "done"
    /\ runs[1].trace[2] = Event("call", 1)
    /\ runs[1].answer_prediction = <<<<"a">>, <<"4">>>>
    /\ runs[2].answer_prediction = <<<<"b", "a">>>>
    /\ runs[1].match_score = <<100, 0>>
    /\ runs[2].match_score = <<100>>

(***************************************************************************)
(* More claims about score.                                                *)
(***************************************************************************)
\* The two strings are different and differ in the case of letters only.
CaseOnly == expected # predicted /\ Lower(expected) = Lower(predicted)

\* The two strings are different and differ in the blanks around them only.
BlanksOnly == expected # predicted /\ Strip(expected) = Strip(predicted)

\* C21: the scorer does not lower or strip the strings: the score is the
\* one of the two strings as given, and two strings that differ only in
\* the case of letters are not taken for identical, they score below 100
\* ("a" against "A" scores 0, and " a" against "a " scores 50 or 67 with
\* the blocks the library reports, not the 100 of "a" against "a").
C21_NoNormalisation ==
    Scored =>
        /\ CaseOnly => match_score < 100
        /\ (expected = <<"a">> /\ predicted = <<"A">>) => match_score = 0
        /\ (BlanksOnly /\ expected = <<" ", "a">> /\ predicted = <<"a", " ">>) =>
               match_score \in {50, 67}

C21_Witness ==
    /\ Scored
    /\ CaseOnly
    /\ expected = <<"a", "A">>
    /\ predicted = <<"A", "a">>
    /\ match_score \in {50, 67}

(***************************************************************************)
(* More claims about the evaluation run.                                   *)
(***************************************************************************)
\* The positions of the trace of run p that hold a step of that kind.
EventsOf(p, kind) == {y \in Events(p) : runs[p].trace[y][1] = kind}

\* C22: a run that succeeds over n inputs has rendered exactly n prompts
\* and made exactly n predict calls, the i-th with the prompt rendered from
\* the i-th input and all of them answered, and it has exactly n records:
\* n predictions, and n scores once it has scored.
C22_OneCallPerInput ==
    \A p \in DOMAIN runs :
        LET r == runs[p]
            n == Len(r.given.question)
        IN /\ r.has_prediction =>
                  /\ Cardinality(EventsOf(p, "render")) = n
                  /\ Cardinality(EventsOf(p, "call")) = n
                  /\ Len(r.calls) = n
                  /\ \A i \in 1..n :
                         /\ r.calls[i].prompt = PromptFor(r.given.question[i])
                         /\ r.calls[i].outcome = "returned"
                  /\ Len(r.question) = n
                  /\ Len(r.answer_groundtruth) = n
                  /\ Len(r.answer_prediction) = n
           /\ r.has_score => (r.has_prediction /\ Len(r.match_score) = n)
           /\ r.pc = "done" => r.has_score

C22_Witness ==
    /\ runs[1].pc = "done"
    /\ Len(runs[1].given.question) = 2
    /\ runs[1].given.question[1] = runs[1].given.question[2]
    /\ Len(runs[1].calls) = 2
    /\ Cardinality(EventsOf(1, "render")) = 2
    /\ Len(runs[1].answer_prediction) = 2
    /\ Len(runs[1].match_score) = 2

(***************************************************************************)
(* More claims about the code completion loop.                             *)
(***************************************************************************)
\* C23: the first call of the loop is sent the prefix the cell starts
\* with, and call k+1 is sent exactly the text call k returned: neither
\* the first prefix nor an earlier text is kept in a later prompt.
C23_PromptIsLastResponse ==
    /\ Len(loop.calls) >= 1 => loop.calls[1].prefix = loop.initial
    /\ \A k \in 1..(Len(loop.calls) - 1) :
           /\ loop.calls[k].outcome = "returned"
           /\ loop.calls[k + 1].prefix = loop.calls[k].text
    /\ (loop.pc \in {"test", "done"} /\ loop.i >= 1) =>
           loop.prefix = loop.calls[loop.i].text

C23_Witness ==
    /\ Len(loop.calls) = 3
    /\ loop.initial = <<"c">>
    /\ loop.calls[1].prefix = <<"c">>
    /\ loop.calls[1].text = <<"d">>
    /\ loop.calls[2].prefix = <<"d">>
    /\ loop.calls[2].text = <<"r">>
    /\ loop.calls[3].prefix = <<"r">>

(***************************************************************************)
(* Claims about the classification report.                                 *)
(***************************************************************************)
Reported == report # <<>> /\ report.pc = "reported"

\* Every row is predicted the label it is expected to have.
AllCorrect == report.sentiment_prediction = report.sentiment_groundtruth

RECURSIVE SupportSum(_)
SupportSum(ls) ==
    IF ls = {} THEN 0
    ELSE LET l == CHOOSE l \in ls : TRUE
         IN report.text.rows[l].support + SupportSum(ls \ {l})

\* C24: when every predicted label equals the expected one, the report
\* shows precision, recall and f1 1.00 for every class and accuracy 1.00;
\* the support of a class is the number of rows expected to have it, and
\* the supports add up to the number of rows.
C24_PerfectReport ==
    (Reported /\ AllCorrect) =>
        LET yt == report.sentiment_groundtruth
        IN /\ DOMAIN report.text.rows = {yt[i] : i \in 1..Len(yt)}
           /\ \A l \in DOMAIN report.text.rows :
                  /\ report.text.rows[l].figures =
                         [precision |-> 100, recall |-> 100, f1 |-> 100]
                  /\ report.text.rows[l].support = CountOf(yt, l)
           /\ report.text.accuracy = 100
           /\ SupportSum(DOMAIN report.text.rows) = Len(yt)
           /\ report.text.total = Len(yt)

C24_Witness ==
    /\ Reported
    /\ AllCorrect
    /\ report.sentiment_groundtruth = ReviewTruth
    /\ DOMAIN report.text.rows = Labels
    /\ report.text.rows["positive"].support = 2
    /\ report.text.rows["negative"].support = 1
    /\ report.text.rows["neutral"].figures.precision = 100
    /\ report.text.accuracy = 100
    /\ report.text.total = 4

\* The loop is over: the cell has ended, normally or with an exception.
LoopOver == loop.pc \in {"done", "failed"}

\* A step changes i only by adding 1 to it, when a predict call returns.
CounterStep ==
    loop'.i # loop.i =>
        /\ loop.pc = "wait"
        /\ loop'.i = loop.i + 1
        /\ Len(loop'.calls) = Len(loop.calls)
        /\ loop'.calls[Len(loop.calls)].outcome = "returned"

\* How the loop can be over: after the third answered call, or before it
\* with the exception of the call that failed.
LoopOutcome ==
    /\ loop.i \in 0..LoopCount
    /\ loop.pc = "done" =>
           /\ loop.i = LoopCount
           /\ Len(loop.calls) = LoopCount
           /\ loop.error = "none"
    /\ loop.pc = "failed" =>
           /\ loop.i < LoopCount
           /\ Len(loop.calls) = loop.i + 1
           /\ loop.calls[Len(loop.calls)].outcome = "raised"
           /\ LoopReturned = 1..loop.i
           /\ loop.error \in Errors

\* C25: the loop always ends: i starts at 0 and changes only by the 1 a
\* completed pass adds to it, so the loop is left after the third pass when
\* every predict call returns, and earlier, with fewer calls and the
\* exception raised, when a call fails.
C25_LoopTerminates ==
    /\ loop.i = 0
    /\ [][CounterStep]_vars
    /\ []LoopOutcome
    /\ <>LoopOver

C25_Witness ==
    /\ loop.pc = "failed"
    /\ loop.i = 2
    /\ Len(loop.calls) = 3
    /\ loop.error = "ServiceUnavailable"

(***************************************************************************)
(* Claims about what the cells of a run write.                             *)
(***************************************************************************)
\* Run p is in the cell that predicts, in the cell that scores.
Predicting(p) == p \in DOMAIN runs /\ runs[p].pc \in {"render", "call", "wait"}

Scoring(p) == p \in DOMAIN runs /\ runs[p].pc = "score"

\* The step leaves the question and answer_groundtruth columns of run p.
InputsKept(p) ==
    /\ runs'[p].question = runs[p].question
    /\ runs'[p].answer_groundtruth = runs[p].answer_groundtruth
    /\ runs'[p].given = runs[p].given

\* The step leaves the answer_prediction column, the match_score column.
PredictionKept(p) ==
    /\ runs'[p].has_prediction = runs[p].has_prediction
    /\ runs'[p].answer_prediction = runs[p].answer_prediction

ScoreKept(p) ==
    /\ runs'[p].has_score = runs[p].has_score
    /\ runs'[p].match_score = runs[p].match_score

\* C26: the cell that predicts writes the answer_prediction column only
\* and the cell that scores writes the match_score column only: neither
\* changes a question or an expected answer, and scoring changes no
\* prediction.
C26_CellsWriteTheirColumn ==
    [][\A p \in Invocations :
           /\ Predicting(p) => (InputsKept(p) /\ ScoreKept(p))
           /\ Scoring(p) => (InputsKept(p) /\ PredictionKept(p))]_vars

C26_Witness ==
    /\ runs[1].has_score
    /\ Len(runs[1].question) = 2
    /\ runs[1].question = runs[1].given.question
    /\ runs[1].answer_groundtruth = <<<<"a", "b">>, <<"a">>>>
    /\ runs[1].answer_prediction = <<runs[1].calls[1].text, runs[1].calls[2].text>>
    /\ Len(runs[1].match_score) = 2
    /\ runs[1].match_score[1] \in {50, 67}
    /\ runs[1].match_score[2] = 100

(***************************************************************************)
(* Claims about the symmetry of score.                                     *)
(***************************************************************************)
\* The score of the row with its two strings exchanged.
SwappedScore ==
    get_fuzzy_match([answer_groundtruth |-> predicted,
                     answer_prediction |-> expected])

\* C27: the score is the same whichever of the two strings is the
\* expected one and whichever the predicted one.
C27_ScoreSymmetric == Scored => match_score = SwappedScore

(***************************************************************************)
(* Claims about the single pass of render and about unused bindings.       *)
(***************************************************************************)
\* The positions of the placeholder pieces whose value holds a brace.
BracedAt ==
    {k \in 1..Len(pieces) :
        /\ pieces[k].kind = "ph"
        /\ pieces[k].val \in DOMAIN bindings
        /\ HasBrace(bindings[pieces[k].val])}

\* Where the text of piece k starts in the rendered text, less one.
Offset(k) == Len(Substituted(SubSeq(pieces, 1, k - 1), bindings))

\* C28: render substitutes in one pass: a value that itself holds
\* placeholder syntax stands in the rendered text verbatim, at the place of
\* its placeholder, whether the name inside it is bound or not, and the
\* rendered text is no longer or shorter than the pieces substituted once.
C28_SinglePass ==
    (pc = "rendered" /\ prompt.status = "ok") =>
        /\ Len(prompt.text) = Offset(Len(pieces) + 1)
        /\ \A k \in BracedAt :
              LET v == bindings[pieces[k].val]
              IN SubSeq(prompt.text, Offset(k) + 1, Offset(k) + Len(v)) = v

\* A value "{q}" is substituted for c while q is bound to "b": the rendered
\* text holds "{q}" and no "b".
C28_Witness ==
    /\ pc = "rendered"
    /\ pieces = <<Lit("a"), Ph(<<"c">>)>>
    /\ DOMAIN bindings = Names
    /\ bindings[<<"c">>] = <<"{", "q", "}">>
    /\ bindings[<<"q">>] = <<"b">>
    /\ prompt = Result("ok", <<"a", "{", "q", "}">>, <<>>)

\* The scope without the names the template does not refer to.
Used(T, B) == [n \in DOMAIN B \cap Placeholders(T) |-> B[n]]

\* C29: names in the bindings that the template does not refer to do not
\* make render fail, and the result is the one render gives with those
\* names removed.
C29_UnusedBindingsIgnored ==
    pc = "rendered" =>
        /\ prompt = Render(template, Used(template, bindings))
        /\ Covered(template, bindings) =>
              prompt = Result("ok",
                              Substituted(pieces, Used(template, bindings)),
                              <<>>)

C29_Witness ==
    /\ pc = "rendered"
    /\ pieces = <<Ph(<<"q">>), Lit("a")>>
    /\ DOMAIN bindings = Names
    /\ bindings[<<"q">>] = <<"b">>
    /\ bindings[<<"c">>] = <<"{", "q", "}">>
    /\ prompt = Result("ok", <<"b", "a">>, <<>>)

=============================================================================
